---- MODULE Spec2Model ----
(***************************************************************************)
(* Model of the snapshot acquisition pipeline of apps/execution-ts:        *)
(*   - pLimit, the queue-based concurrency limiter        (SpecLimit)      *)
(*   - fetchJsonWithBackoff, the retrying fetcher         (SpecFetch)      *)
(*   - snapshot, one run of the pipeline with its store   (Spec)           *)
(*   - pruneOlderThanMs, applied to any store             (SpecPrune)      *)
(*   - loadVerifiedTokens, the token-universe resolver    (SpecTokens)     *)
(*   - one quote unit, for any answers of the service     (SpecQuote)      *)
(* Each specification drives its own group of variables and leaves the     *)
(* other groups at their idle values.                                      *)
(***************************************************************************)
EXTENDS Integers, Sequences, FiniteSets, TLC

\* ------------------------------------------------------------------ bounds
\* units submitted to the stand-alone limiter
NUnits == 6
\* largest concurrency the stand-alone limiter is created with
MaxConcurrency == 5

\* ------------------------------------------------------------------- state
\* the state of fetchJsonWithBackoff
VARIABLES
  attempts,      \* the attempts argument
  maxDelayMs,    \* the maxDelayMs argument
  i,             \* the loop index
  lastErr,       \* the last failure caught
  fpc,           \* "call" | "request" | "sleep" | "returned" | "raised"
  observed,      \* the failures caught so far, in order
  requests,      \* number of axios.get calls made
  sleeps,        \* the delays of the setTimeout calls made, in order
  fetched        \* what the call returned or raised

fetchVars == <<attempts, maxDelayMs, i, lastErr, fpc, observed, requests, sleeps,
               fetched>>

\* the state of one limiter and of the units submitted to it
VARIABLES
  concurrency,   \* pLimit's argument
  limit,         \* the closure state of one limiter: [active, queue]
  submitted,     \* number of units submitted so far; unit ids are 1..submitted
  unitState,     \* unit -> "new" | "queued" | "running" | "settled" | "done"
  unitResult,    \* unit -> how the promise returned by fn() settled
  callerGot,     \* unit -> what the promise returned by the limiter settled with
  startOrder,    \* the units in the order run() was called for them
  waited,        \* the units whose run was pushed on the queue
  releases       \* unit -> number of next() calls made for it

limVars == <<concurrency, limit, submitted, unitState, unitResult, callerGot,
             startOrder, waited, releases>>

\* the state of one run of the snapshot command
VARIABLES
  now,           \* Date.now(): every awaited answer finds it one ms later
  pc,            \* where the command is: "begin" | "resolve" | "retention" |
                 \* "launch" | "onchain" | "quotes" | "returned" |
                 \* "raised"
  offline,       \* asBool(JUP_OFFLINE) && !asBool(FORCE_ONLINE)
  quotesEnabled, \* asBool(QUOTES_ENABLED)
  env,           \* the parsed environment: [QUOTE_MAX_TOKENS]
  resolved,      \* what loadVerifiedTokens will do: [throws, list]
  db,            \* the store: [snapshots, prices, tokens, meta]
  db0,           \* the store as the run found it
  ts,            \* const ts = Date.now()
  tokens,        \* the resolved universe
  counts,        \* beforeSnaps, beforePrices, afterSnaps, afterPrices
  rpcLimit,      \* pLimit(5): [active, queue]
  onchain,       \* per token index: state and outcome of its on-chain unit
  rows,          \* snapshot rows, in the order the units pushed them
  tokenRows,     \* directory rows, in the order the units pushed them
  priceRows,     \* price rows, in the order they were pushed
  toQuote,       \* the tokens selected for quotes
  qLimit,        \* pLimit(2): [active, queue]
  quotes,        \* per toQuote index: state and outcome of its quote unit
  metricsMap,    \* mint -> metrics, for the mints some quote unit has set
  requested,     \* the requests issued to the chain and to the quote service
  storeLog,      \* the store operations performed, in order, with their success
  result,        \* what snapshot returned
  exitCode       \* process.exitCode

snapVars == <<now, pc, offline, quotesEnabled, env, resolved, db, db0, ts, tokens,
              counts, rpcLimit, onchain, rows, tokenRows, priceRows, toQuote,
              qLimit, quotes, metricsMap, requested, storeLog, result, exitCode>>

\* the state of one call of pruneOlderThanMs
VARIABLES
  pruneDb,       \* the store the call works on
  pruneDb0,      \* that store before the call
  pruneCutoff,   \* the olderThanMs argument
  pruneDone      \* whether the call has returned

pruneVars == <<pruneDb, pruneDb0, pruneCutoff, pruneDone>>

\* the state of the token-universe resolver and of its files
VARIABLES
  cacheFile,     \* jup_verified_cache.json: [kind, ts, items]
  seedFile,      \* tokens.seed.json: [kind, items]
  lvOffline,     \* offline, as loadVerifiedTokens reads it
  lvLimit,       \* the limit argument (env.TOKEN_LIMIT)
  lvNow,         \* Date.now() when the last call returned
  lvCalls        \* the calls made, in order: what each found, did and returned

tokVars == <<cacheFile, seedFile, lvOffline, lvLimit, lvNow, lvCalls>>

\* the state of one quote unit
VARIABLES
  unitToken,     \* t, the token the unit quotes
  unitAnswers,   \* what its jupQuote calls return: <<qi, qBuy, qSell>>
  unitOut        \* what the unit did: [metrics, prices, legs]

quoteVars == <<unitToken, unitAnswers, unitOut>>

vars == <<limVars, fetchVars, snapVars, pruneVars, tokVars, quoteVars>>
\* what the limiter's actions leave alone
notLimit == <<fetchVars, snapVars, pruneVars, tokVars, quoteVars>>
\* what the fetcher's actions leave alone
notFetch == <<limVars, snapVars, pruneVars, tokVars, quoteVars>>
\* what the snapshot command's actions leave alone
notSnapshot == <<limVars, fetchVars, pruneVars, tokVars, quoteVars>>
\* what a call of pruneOlderThanMs leaves alone
notPrune == <<limVars, fetchVars, snapVars, tokVars, quoteVars>>
\* what the resolver leaves alone
notTokens == <<limVars, fetchVars, snapVars, pruneVars, quoteVars>>
\* what a quote unit on its own leaves alone
notQuote == <<limVars, fetchVars, snapVars, pruneVars, tokVars>>

\* ------------------------------------------------------------ the limiter
NoOutcome == [kind |-> "pending", unit |-> 0]

Units == 1..NUnits

\* let active = 0; const queue = [];
pLimit == [active |-> 0, queue |-> <<>>]

\* run(): active++ and fn() is called
run(l, u) == [limit |-> [l EXCEPT !.active = @ + 1], started |-> <<u>>]

\* queue.shift()
Dequeue_Last(q) == [head |-> q[Len(q)], rest |-> SubSeq(q, 1, Len(q) - 1)]
Dequeue(q) == [head |-> Head(q), rest |-> Tail(q)]

\* const next = () => { active--; if (queue.length) queue.shift()!(); }
next(l) ==
  LET l1 == [l EXCEPT !.active = @ - 1]
  IN IF Len(l1.queue) > 0
       THEN LET d == Dequeue(l1.queue)
            IN run([l1 EXCEPT !.queue = d.rest], d.head) @@ [released |-> 1]
       ELSE [limit |-> l1, started |-> <<>>, released |-> 1]

\* active < concurrency ? run() : queue.push(run)
Admits_OffByOne(l, c) == l.active <= c
Admits(l, c) == l.active < c

submit(l, c, u) ==
  IF Admits(l, c) THEN run(l, u)
  ELSE [limit |-> [l EXCEPT !.queue = Append(@, u)], started |-> <<>>]

\* .then((v) => { resolve(v); next(); })
onFulfilled_NoNext(l) == [limit |-> l, started |-> <<>>, released |-> 0]
onFulfilled(l) == next(l)
\* .catch((e) => { reject(e); next(); })
onRejected_NoNext(l) == [limit |-> l, started |-> <<>>, released |-> 0]
onRejected(l) == next(l)

\* the state of the units in `started` becomes "running"
Starting(st, started) ==
  [u \in DOMAIN st |->
     IF \E k \in 1..Len(started) : started[k] = u THEN "running" ELSE st[u]]

InitLimit ==
  /\ concurrency \in 1..MaxConcurrency
  /\ limit = pLimit
  /\ submitted = 0
  /\ unitState = [u \in Units |-> "new"]
  /\ unitResult = [u \in Units |-> "none"]
  /\ callerGot = [u \in Units |-> NoOutcome]
  /\ startOrder = <<>>
  /\ waited = {}
  /\ releases = [u \in Units |-> 0]

\* limiter(fn): a caller submits the next unit
Submit ==
  /\ submitted < NUnits
  /\ LET u == submitted + 1
         r == submit(limit, concurrency, u)
     IN /\ submitted' = u
        /\ limit' = r.limit
        /\ unitState' = Starting([unitState EXCEPT ![u] = "queued"], r.started)
        /\ startOrder' = startOrder \o r.started
        /\ waited' = IF r.started = <<>> THEN waited \cup {u} ELSE waited
  /\ UNCHANGED <<concurrency, unitResult, callerGot, releases, notLimit>>

\* the promise returned by fn() settles, with a value or with a failure
UnitSettles(u, res) ==
  /\ unitState[u] = "running"
  /\ unitState' = [unitState EXCEPT ![u] = "settled"]
  /\ unitResult' = [unitResult EXCEPT ![u] = res]
  /\ UNCHANGED <<concurrency, limit, submitted, callerGot, startOrder, waited,
                 releases, notLimit>>

\* the then / catch callback of run() for unit u
Settled(u) ==
  /\ unitState[u] = "settled"
  /\ LET r == IF unitResult[u] = "ok" THEN onFulfilled(limit) ELSE onRejected(limit)
     IN /\ limit' = r.limit
        /\ unitState' = Starting([unitState EXCEPT ![u] = "done"], r.started)
        /\ startOrder' = startOrder \o r.started
        /\ releases' = [releases EXCEPT ![u] = @ + r.released]
  /\ callerGot' = [callerGot EXCEPT ![u] = [kind |-> unitResult[u], unit |-> u]]
  /\ UNCHANGED <<concurrency, submitted, unitResult, waited, notLimit>>

NextLimit ==
  \/ Submit
  \/ \E u \in Units, res \in {"ok", "fail"} : UnitSettles(u, res)
  \/ \E u \in Units : Settled(u)

\* ---------------------------------------------------- fetchJsonWithBackoff
\* largest value of the attempts argument
MaxAttempts == 3
\* 400 * Math.pow(2, i)
BaseDelayMs == 400
\* Math.floor(Math.random() * 150) is in 0..JitterMs - 1
JitterMs == 150

\* let lastErr: any;
Undefined == [kind |-> "undefined", attempt |-> -1, hasStatus |-> FALSE, status |-> 0]
\* a failure of axios.get at attempt k; hasStatus is FALSE when the failure
\* carries no response (e?.response?.status is undefined)
Failure(k, hasStatus, status) ==
  [kind |-> "error", attempt |-> k, hasStatus |-> hasStatus, status |-> status]
\* the data of the response to attempt k
Body(k) == [kind |-> "data", attempt |-> k, hasStatus |-> TRUE, status |-> 200]

\* the statuses a failed request can carry
FailStatuses == {400, 404, 429, 499, 500, 503, 599, 600}
MaxDelays == {1000, 1500}
Jitters == {0, JitterMs - 1}

RECURSIVE Pow2(_)
Pow2(n) == IF n = 0 THEN 1 ELSE 2 * Pow2(n - 1)

Min(a, b) == IF a < b THEN a ELSE b

\* status === 429 || (status >= 500 && status < 600)
Retriable_ClientErrors(e) == e.hasStatus /\ e.status >= 400 /\ e.status < 600
Retriable(e) == e.hasStatus /\ (e.status = 429 \/ (e.status >= 500 /\ e.status < 600))

\* Math.min(maxDelayMs, 400 * Math.pow(2, i)) + Math.floor(Math.random() * 150)
Delay(maxDelay, k, jitter) == Min(maxDelay, BaseDelayMs * Pow2(k)) + jitter

\* for (...; i < attempts; ...)
LoopRuns_OffByOne(k, n) == k <= n
LoopRuns(k, n) == k < n

InitFetch ==
  /\ attempts \in 0..MaxAttempts
  /\ maxDelayMs \in MaxDelays
  /\ i = 0
  /\ lastErr = Undefined
  /\ fpc = "call"
  /\ observed = <<>>
  /\ requests = 0
  /\ sleeps = <<>>
  /\ fetched = Undefined

\* the loop head at index k: the next axios.get is issued, or throw lastErr
LoopHead(k) ==
  IF LoopRuns(k, attempts)
    THEN /\ fpc' = "request"
         /\ requests' = requests + 1
         /\ fetched' = fetched
    ELSE /\ fpc' = "raised"
         /\ requests' = requests
         /\ fetched' = lastErr

\* the call: let lastErr; i = 0; first pass through the loop head
Call ==
  /\ fpc = "call"
  /\ i' = 0
  /\ LoopHead(0)
  /\ UNCHANGED <<attempts, maxDelayMs, lastErr, observed, sleeps, notFetch>>

\* axios.get resolves: return data
RequestSucceeds ==
  /\ fpc = "request"
  /\ fpc' = "returned"
  /\ fetched' = Body(i)
  /\ UNCHANGED <<attempts, maxDelayMs, i, lastErr, observed, requests, sleeps,
                 notFetch>>

\* axios.get rejects with e: the catch block
RequestFails(hasStatus, status, jitter) ==
  /\ fpc = "request"
  /\ LET e == Failure(i, hasStatus, status)
     IN /\ lastErr' = e
        /\ observed' = Append(observed, e)
        /\ IF Retriable(e)
             THEN /\ sleeps' = Append(sleeps, Delay(maxDelayMs, i, jitter))
                  /\ fpc' = "sleep"
                  /\ fetched' = fetched
             ELSE /\ sleeps' = sleeps
                  /\ fpc' = "raised"
                  /\ fetched' = e
  /\ UNCHANGED <<attempts, maxDelayMs, i, requests, notFetch>>

\* the timer fires: continue; i++; back to the loop head
Wake ==
  /\ fpc = "sleep"
  /\ i' = i + 1
  /\ LoopHead(i + 1)
  /\ UNCHANGED <<attempts, maxDelayMs, lastErr, observed, sleeps, notFetch>>

NextFetch ==
  \/ Call
  \/ RequestSucceeds
  \/ \E status \in FailStatuses, jitter \in Jitters : RequestFails(TRUE, status, jitter)
  \/ RequestFails(FALSE, 0, 0)
  \/ Wake

\* ------------------------------------------------------------ the store
\* epoch of the model's clock, in ms
T0 == 1000000000
\* 60 * 60 * 1000
HourMs == 3600000
\* 48 * 60 * 60 * 1000
RetentionMs == 48 * HourMs

\* env.QUOTE_BASE_MINT
USDC_MINT == "USDC"
Mints == {USDC_MINT, "X", "Y"}

\* null, for a REAL column or a number | null field
Null == [null |-> TRUE, v |-> 0]
Num(v) == [null |-> FALSE, v |-> v]

\* a row of the snapshots table (the columns the run can set differently)
SnapshotRow(t, mint, decimals) ==
  [ts |-> t, mint |-> mint, decimals |-> decimals,
   impact_1k_pct |-> Null, spread_pct |-> Null]
\* a row of the prices table
PriceRow(t, mint, price) == [ts |-> t, mint |-> mint, price_usd |-> price]
\* a row of the tokens table
TokenEntry(mint, decimals) == [mint |-> mint, decimals |-> decimals, verified |-> 1]

\* price_usd: 1.0, in millionths
OneUsd == 1000000
\* a price in USD: micro millionths, times 10^12 when huge (a division by the
\* 1e-12 that replaces a zero denominator)
Price(huge, micro) == [huge |-> huge, micro |-> micro]

MetaKeys == {"last_snapshot_ts", "rpc_url", "token_limit"}
EmptyDB ==
  [snapshots |-> {}, prices |-> {}, tokens |-> {},
   meta |-> [k \in MetaKeys |-> "null"]]
\* a store left by earlier runs: rows 49 h, 48 h and 47 h old
OldDB ==
  [snapshots |-> {SnapshotRow(T0 - 49 * HourMs, "X", 1),
                  SnapshotRow(T0 - RetentionMs, "X", 1),
                  SnapshotRow(T0 - 47 * HourMs, "Y", 2)},
   prices |-> {PriceRow(T0 - 49 * HourMs, USDC_MINT, Price(FALSE, OneUsd)),
               PriceRow(T0 - 47 * HourMs, USDC_MINT, Price(FALSE, OneUsd))},
   tokens |-> {TokenEntry("X", 0)},
   meta |-> [k \in MetaKeys |-> "old"]]

\* DELETE FROM snapshots WHERE ts < ?
deleteSnapshots_Inclusive(d, olderThanMs) ==
  [d EXCEPT !.snapshots = {r \in @ : ~(r.ts <= olderThanMs)}]
deleteSnapshots(d, olderThanMs) ==
  [d EXCEPT !.snapshots = {r \in @ : ~(r.ts < olderThanMs)}]
\* DELETE FROM prices WHERE ts < ?
deletePrices_Skipped(d, olderThanMs) == d
deletePrices(d, olderThanMs) ==
  [d EXCEPT !.prices = {r \in @ : ~(r.ts < olderThanMs)}]
pruneOlderThanMs(d, olderThanMs) ==
  deletePrices(deleteSnapshots(d, olderThanMs), olderThanMs)

\* SELECT COUNT(*) FROM table
countRows(d, table) == Cardinality(d[table])

\* INSERT INTO meta ... ON CONFLICT(key) DO UPDATE SET value=excluded.value
setMeta(d, key, value) == [d EXCEPT !.meta[key] = value]

\* the index of the last row of rws with the key of rws[k]
LastWith(rws, k, SameKey(_, _)) ==
  CHOOSE j \in k..Len(rws) :
    /\ SameKey(rws[j], rws[k])
    /\ \A j2 \in j + 1..Len(rws) : ~SameKey(rws[j2], rws[k])

SameMint(a, b) == a.mint = b.mint
SameTsMint(a, b) == a.ts = b.ts /\ a.mint = b.mint

\* INSERT INTO tokens ... ON CONFLICT(mint) DO UPDATE SET ...; one transaction
upsertTokens(d, rws) ==
  LET new == {rws[LastWith(rws, k, SameMint)] : k \in 1..Len(rws)}
  IN [d EXCEPT !.tokens = {e \in @ : \A n \in new : e.mint # n.mint} \cup new]

\* whether INSERT INTO snapshots meets the PRIMARY KEY (ts, mint) twice
snapshotsConflict(d, rws) ==
  \/ \E k \in 1..Len(rws) : \E r \in d.snapshots : SameTsMint(r, rws[k])
  \/ \E j, k \in 1..Len(rws) : j # k /\ SameTsMint(rws[j], rws[k])

\* INSERT INTO snapshots (...) VALUES (...); one transaction
insertSnapshots(d, rws) ==
  [d EXCEPT !.snapshots = @ \cup {rws[k] : k \in 1..Len(rws)}]

\* INSERT OR REPLACE INTO prices (ts, mint, price_usd); one transaction
insertPrices(d, rws) ==
  LET new == {rws[LastWith(rws, k, SameTsMint)] : k \in 1..Len(rws)}
  IN [d EXCEPT !.prices = {e \in @ : \A n \in new : ~SameTsMint(e, n)} \cup new]

\* an entry of the log of store operations
Op(name, ok) == [op |-> name, ok |-> ok]

\* ------------------------------------------------ pruneOlderThanMs alone
\* the ages of the rows of the stores pruned, and the cutoffs
PruneTimes == {T0 - 49 * HourMs, T0 - RetentionMs, T0 - 47 * HourMs}
\* the stores: any rows of those ages, with a directory and metadata
PruneStores ==
  {[snapshots |-> {SnapshotRow(t, "X", 1) : t \in st},
    prices |-> {PriceRow(t, USDC_MINT, Price(FALSE, OneUsd)) : t \in pt},
    tokens |-> OldDB.tokens,
    meta |-> OldDB.meta] : st \in SUBSET PruneTimes, pt \in SUBSET PruneTimes}

InitPrune ==
  /\ pruneDb \in PruneStores
  /\ pruneDb0 = pruneDb
  /\ pruneCutoff \in PruneTimes
  /\ pruneDone = FALSE

\* pruneOlderThanMs(db, olderThanMs)
Prune ==
  /\ ~pruneDone
  /\ pruneDb' = pruneOlderThanMs(pruneDb, pruneCutoff)
  /\ pruneDone' = TRUE
  /\ UNCHANGED <<pruneDb0, pruneCutoff, notPrune>>

NextPrune == Prune

\* ------------------------------------------------------ the snapshot run
\* longest universe loadVerifiedTokens resolves
MaxTokens == 3
\* pLimit(5)
RpcConcurrency == 5
\* pLimit(2)
QuoteConcurrency == 2
\* QUOTE_MAX_TOKENS: default(25)
DefaultQuoteMaxTokens == 25

\* a TokenRow of the universe: USDC and X come with decimals, Y without
Token(mint) ==
  [address |-> mint,
   decimals |-> IF mint = "Y" THEN Null ELSE IF mint = "X" THEN Num(1) ELSE Num(6)]
\* mintInfo.decimals as the chain reports it
MintDecimals(mint) == IF mint = "Y" THEN 2 ELSE IF mint = "X" THEN 1 ELSE 6

\* the lists loadVerifiedTokens can return
Universes ==
  UNION {[1..n -> {Token(m) : m \in Mints}] : n \in 0..MaxTokens}
\* loadVerifiedTokens returns a list or throws
Resolutions ==
  {[throws |-> FALSE, list |-> l] : l \in Universes}
    \cup {[throws |-> TRUE, list |-> <<>>]}

\* the configurations of a run: offline, quotesEnabled, env
Configs ==
  {[offline |-> FALSE, quotesEnabled |-> TRUE, QUOTE_MAX_TOKENS |-> DefaultQuoteMaxTokens],
   [offline |-> FALSE, quotesEnabled |-> TRUE, QUOTE_MAX_TOKENS |-> 1],
   [offline |-> FALSE, quotesEnabled |-> FALSE, QUOTE_MAX_TOKENS |-> DefaultQuoteMaxTokens],
   [offline |-> TRUE, quotesEnabled |-> TRUE, QUOTE_MAX_TOKENS |-> DefaultQuoteMaxTokens]}

NoCounts == [beforeSnaps |-> 0, beforePrices |-> 0, afterSnaps |-> 0, afterPrices |-> 0]
NoResult == [ts |-> 0, savedTokens |-> -1, prunedRows |-> [snapshots |-> 0, prices |-> 0]]

InitSnapshot ==
  /\ now = T0
  /\ pc = "begin"
  /\ \E c \in Configs :
       /\ offline = c.offline
       /\ quotesEnabled = c.quotesEnabled
       /\ env = [QUOTE_MAX_TOKENS |-> c.QUOTE_MAX_TOKENS, RPC_URL |-> "RPC_URL",
                 TOKEN_LIMIT |-> MaxTokens]
  /\ resolved \in Resolutions
  /\ db = OldDB
  /\ db0 = db
  /\ ts = 0
  /\ tokens = <<>>
  /\ counts = NoCounts
  /\ rpcLimit = pLimit
  /\ onchain = <<>>
  /\ rows = <<>>
  /\ tokenRows = <<>>
  /\ priceRows = <<>>
  /\ toQuote = <<>>
  /\ qLimit = pLimit
  /\ quotes = <<>>
  /\ metricsMap = <<>>
  /\ requested = {}
  /\ storeLog = <<>>
  /\ result = NoResult
  /\ exitCode = 0

\* cli: snapshot returned (the summary is printed) or raised
\* (process.exitCode = 1); finally db.close()
CliExit(raised) ==
  /\ pc' = IF raised THEN "raised" ELSE "returned"
  /\ exitCode' = IF raised THEN 1 ELSE exitCode

\* cli: const db = openDB(); snapshot(db): const ts = Date.now();
\* loadVerifiedTokens is called
Begin ==
  /\ pc = "begin"
  /\ ts' = now
  /\ pc' = "resolve"
  /\ UNCHANGED <<now, offline, quotesEnabled, env, resolved, db, db0, tokens, counts,
                 rpcLimit, onchain, rows, tokenRows, priceRows, toQuote, qLimit,
                 quotes, metricsMap, requested, storeLog, result, exitCode,
                 notSnapshot>>

\* try { tokens = await loadVerifiedTokens(...) } catch { tokens = [] }
Resolve ==
  /\ pc = "resolve"
  /\ tokens' = IF resolved.throws THEN <<>> ELSE resolved.list
  /\ pc' = "retention"
  /\ now' = now + 1
  /\ UNCHANGED <<offline, quotesEnabled, env, resolved, db, db0, ts, counts,
                 rpcLimit, onchain, rows, tokenRows, priceRows, toQuote, qLimit,
                 quotes, metricsMap, requested, storeLog, result, exitCode,
                 notSnapshot>>

\* the store operations of step 2, in order
RetentionOps ==
  <<"countRows", "countRows", "deleteSnapshots", "deletePrices", "countRows",
    "countRows", "setMeta", "setMeta", "setMeta">>
\* the operation of step 2 that throws: 0 for none
RetentionFaults == 0..Len(RetentionOps)

\* the store after the first n operations of step 2
RetentionDB(d, n) ==
  LET cutoff == ts - RetentionMs
      d3 == IF n >= 3 THEN deleteSnapshots(d, cutoff) ELSE d
      d4 == IF n >= 4 THEN deletePrices(d3, cutoff) ELSE d3
      d7 == IF n >= 7 THEN setMeta(d4, "last_snapshot_ts", ToString(ts)) ELSE d4
      d8 == IF n >= 8 THEN setMeta(d7, "rpc_url", env.RPC_URL) ELSE d7
  IN IF n >= 9 THEN setMeta(d8, "token_limit", ToString(env.TOKEN_LIMIT)) ELSE d8

\* the log entries of step 2 when operation `fault` throws
RetentionLog(fault) ==
  [k \in 1..(IF fault = 0 THEN Len(RetentionOps) ELSE fault) |->
     Op(RetentionOps[k], k # fault)]

\* step 2: counts, pruneOlderThanMs, counts, setMeta; then the empty-universe
\* return
Retention(fault) ==
  /\ pc = "retention"
  /\ LET done == IF fault = 0 THEN Len(RetentionOps) ELSE fault - 1
         d == RetentionDB(db, done)
         c == [beforeSnaps |-> countRows(db, "snapshots"),
               beforePrices |-> countRows(db, "prices"),
               afterSnaps |-> countRows(d, "snapshots"),
               afterPrices |-> countRows(d, "prices")]
     IN /\ db' = d
        /\ storeLog' = storeLog \o RetentionLog(fault)
        /\ IF fault # 0
             THEN /\ CliExit(TRUE)
                  /\ UNCHANGED <<counts, result>>
             ELSE /\ counts' = c
                  /\ IF Len(tokens) = 0
                       THEN /\ CliExit(FALSE)
                            /\ result' =
                                 [ts |-> ts, savedTokens |-> 0,
                                  prunedRows |->
                                    [snapshots |-> c.beforeSnaps - c.afterSnaps,
                                     prices |-> c.beforePrices - c.afterPrices]]
                       ELSE /\ pc' = "launch"
                            /\ UNCHANGED <<result, exitCode>>
  /\ UNCHANGED <<now, offline, quotesEnabled, env, resolved, db0, ts, tokens,
                 rpcLimit, onchain, rows, tokenRows, priceRows, toQuote, qLimit,
                 quotes, metricsMap, requested, notSnapshot>>

\* ------------------------------------------------------------- quotes
\* QUOTE_SPREAD_USD: default(20)
QUOTE_SPREAD_USD == 20

\* what jupQuote returns: null (any failure of the fetch), or a QuoteResp
NoQuote == [isNull |-> TRUE, outAmount |-> "", priceImpactPct |-> Null]
Quote(outAmount, impact) ==
  [isNull |-> FALSE, outAmount |-> outAmount, priceImpactPct |-> impact]

\* the outAmount strings of the model
OutAmounts == {"", "0", "100", "19000000"}
\* Number(outAmount)
NumberOf(str) ==
  CASE str = "" -> 0
    [] str = "0" -> 0
    [] str = "100" -> 100
    [] str = "19000000" -> 19000000
\* the truth value of a string: only "" is false
Truthy(str) == str # ""

RECURSIVE Pow10(_)
Pow10(n) == IF n = 0 THEN 1 ELSE 10 * Pow10(n - 1)

\* (pBuy + pSell) / 2; a huge term absorbs a term that is not
MidPrice(a, b) ==
  IF a.huge = b.huge THEN Price(a.huge, (a.micro + b.micro) \div 2)
  ELSE IF a.huge THEN Price(TRUE, a.micro \div 2)
  ELSE Price(TRUE, b.micro \div 2)
\* ((pBuy - pSell) / mid) * 100, in whole percent
SpreadPct(a, b, mid) ==
  LET am == IF a.huge = mid.huge THEN a.micro ELSE 0
      bm == IF b.huge = mid.huge THEN b.micro ELSE 0
  IN ((am - bm) * 100) \div mid.micro

\* the body of a quote unit for token t, given what its three jupQuote calls
\* return: the metrics it stores, the mid price it pushes (if any) and the
\* legs it requested
QuoteUnit(t, qi, qBuy, qSell) ==
  LET dec == IF t.decimals.null THEN 0 ELSE t.decimals.v
      impactPct == IF ~qi.isNull /\ ~qi.priceImpactPct.null
                     THEN qi.priceImpactPct ELSE Null
      buyOk == ~qBuy.isNull /\ Truthy(qBuy.outAmount)
      outRaw == NumberOf(qBuy.outAmount)
      \* outTok || 1e-12 and inTok || 1e-12
      zeroTok == outRaw = 0
      pBuy == IF zeroTok THEN Price(TRUE, QUOTE_SPREAD_USD * OneUsd)
              ELSE Price(FALSE, (QUOTE_SPREAD_USD * OneUsd * Pow10(dec)) \div outRaw)
      sellOk == buyOk /\ ~qSell.isNull /\ Truthy(qSell.outAmount)
      \* outUsd, in millionths
      outUsd == NumberOf(qSell.outAmount)
      pSell == IF zeroTok THEN Price(outUsd # 0, outUsd)
               ELSE Price(FALSE, (outUsd * Pow10(dec)) \div outRaw)
      mid == MidPrice(pBuy, pSell)
      \* mid > 0 && Number.isFinite(mid)
      accepted == sellOk /\ mid.micro > 0
  IN [metrics |-> [impact_1k_pct |-> impactPct,
                   spread_pct |-> IF accepted THEN Num(SpreadPct(pBuy, pSell, mid))
                                  ELSE Null],
      prices |-> IF accepted THEN <<mid>> ELSE <<>>,
      legs |-> IF buyOk THEN {"impact", "buy", "sell"} ELSE {"impact", "buy"}]

\* the answers of the quote service a quote unit of a run meets: none, all
\* three, or the impact quote alone
RunQuotes ==
  {<<NoQuote, NoQuote, NoQuote>>,
   <<Quote("100", Num(12)), Quote("100", Null), Quote("19000000", Null)>>,
   <<Quote("100", Num(12)), NoQuote, NoQuote>>}
\* which of them a unit met, as its record keeps it
Answered(q) ==
  IF q[1].isNull THEN "nothing" ELSE IF q[2].isNull THEN "impact" ELSE "all"
Answers(name) == CHOOSE q \in RunQuotes : Answered(q) = name

\* ------------------------------------------------- one quote unit alone
\* the unit has not run
NoUnitOut ==
  [metrics |-> [impact_1k_pct |-> Null, spread_pct |-> Null], prices |-> <<>>,
   legs |-> {}]
\* what a jupQuote call can return
QuoteAnswers ==
  {NoQuote} \cup {Quote(a, p) : a \in OutAmounts, p \in {Null, Num(12)}}

InitQuote ==
  /\ unitToken \in {Token(m) : m \in Mints \ {USDC_MINT}}
  /\ unitAnswers \in QuoteAnswers \X QuoteAnswers \X QuoteAnswers
  /\ unitOut = NoUnitOut

\* the body of the quote unit runs to its end
RunQuoteUnit ==
  /\ unitOut = NoUnitOut
  /\ unitOut' = QuoteUnit(unitToken, unitAnswers[1], unitAnswers[2], unitAnswers[3])
  /\ UNCHANGED <<unitToken, unitAnswers, notQuote>>

NextQuote == RunQuoteUnit

\* ------------------------------------------------- the fan-out phases
\* a unit of a phase: its state in the limiter ("queued" | "running" | "done"),
\* what its lookups met, and how the promise of its async function settled
Unit(state, outcome, promise) ==
  [state |-> state, outcome |-> outcome, promise |-> promise]

\* a request to the chain or to the quote service
Request(kind, leg, inputMint, outputMint) ==
  [kind |-> kind, leg |-> leg, inputMint |-> inputMint, outputMint |-> outputMint]

\* items.map((t) => limiter(...)): units k..n are submitted in order
RECURSIVE SubmitAll(_, _, _, _)
SubmitAll(l, c, k, n) ==
  IF k > n THEN [limit |-> l, started |-> <<>>]
  ELSE LET r == submit(l, c, k)
           rest == SubmitAll(r.limit, c, k + 1, n)
       IN [limit |-> rest.limit, started |-> r.started \o rest.started]

\* the units of `started` are running, the others of 1..n as they were
Launched(us, started) ==
  [k \in DOMAIN us |->
     IF \E j \in 1..Len(started) : started[j] = k
       THEN Unit("running", us[k].outcome, us[k].promise) ELSE us[k]]

\* conn.getAccountInfo(mintPk) of the units started
ChainRequests(toks, started) ==
  {Request("getAccountInfo", "-", toks[started[j]].address, toks[started[j]].address) :
     j \in 1..Len(started)}
\* the first jupQuote of the units started
ImpactRequests(toks, started) ==
  {Request("quote", "impact", USDC_MINT, toks[started[j]].address) :
     j \in 1..Len(started)}
\* the legs a finished quote unit requested
LegRequests(t, legs) ==
  {Request("quote", leg, IF leg = "sell" THEN t.address ELSE USDC_MINT,
           IF leg = "sell" THEN USDC_MINT ELSE t.address) : leg \in legs}

\* the ts field of the rows a run pushes
RowTs_Now(t, clock) == clock
RowTs(t, clock) == t

\* the try / catch of the on-chain unit: a failed lookup is skipped
OnChainUnit_NoCatch(outcome) == IF outcome = "fail" THEN "fail" ELSE "ok"
OnChainUnit(outcome) == "ok"

\* await Promise.all(units): pending, fulfilled once every unit's promise is,
\* rejected as soon as one is
PromiseAll_NotAwaited(us) == "fulfilled"
PromiseAll(us) ==
  IF \E k \in DOMAIN us : us[k].state = "done" /\ us[k].promise = "fail"
    THEN "rejected"
  ELSE IF \A k \in DOMAIN us : us[k].state = "done" THEN "fulfilled"
  ELSE "pending"

\* const conn = new Connection(...); const rpcLimit = pLimit(5);
\* tokens.map((t) => rpcLimit(...))
LaunchOnChain ==
  /\ pc = "launch"
  /\ LET r == SubmitAll(pLimit, RpcConcurrency, 1, Len(tokens))
     IN /\ rpcLimit' = r.limit
        /\ onchain' = Launched([k \in 1..Len(tokens) |-> Unit("queued", "none", "none")],
                               r.started)
        /\ requested' = requested \cup ChainRequests(tokens, r.started)
  /\ pc' = "onchain"
  /\ UNCHANGED <<now, offline, quotesEnabled, env, resolved, db, db0, ts, tokens,
                 counts, rows, tokenRows, priceRows, toQuote, qLimit, quotes,
                 metricsMap, storeLog, result, exitCode, notSnapshot>>

\* the on-chain unit of token k ends: getAccountInfo found no account
\* ("notfound"), a lookup threw ("fail"), or both lookups answered ("ok") and
\* the rows are pushed; then the limiter's callback runs
OnChainCompletes(k, outcome) ==
  /\ k \in DOMAIN onchain
  /\ onchain[k].state = "running"
  /\ LET t == tokens[k]
         decimals == IF t.decimals.null THEN MintDecimals(t.address) ELSE t.decimals.v
         promise == OnChainUnit(outcome)
         r == IF promise = "ok" THEN onFulfilled(rpcLimit) ELSE onRejected(rpcLimit)
     IN /\ rows' = IF outcome = "ok"
                     THEN Append(rows, SnapshotRow(RowTs(ts, now), t.address, decimals))
                     ELSE rows
        /\ tokenRows' = IF outcome = "ok"
                          THEN Append(tokenRows, TokenEntry(t.address, decimals))
                          ELSE tokenRows
        /\ rpcLimit' = r.limit
        /\ onchain' = Launched([onchain EXCEPT ![k] = Unit("done", outcome, promise)],
                               r.started)
        /\ requested' = requested \cup ChainRequests(tokens, r.started)
  /\ now' = now + 1
  /\ UNCHANGED <<pc, offline, quotesEnabled, env, resolved, db, db0, ts, tokens,
                 counts, priceRows, toQuote, qLimit, quotes, metricsMap, storeLog,
                 result, exitCode, notSnapshot>>

ShouldQuote_IgnoresOffline(off, enabled) == enabled
\* !offline && quotesEnabled
ShouldQuote(off, enabled) == ~off /\ enabled

\* seq.slice(0, n)
Slice(seq, n) == SubSeq(seq, 1, Min(n, Len(seq)))

SelectToQuote_NoFilter(toks, max) == Slice(toks, Min(max, Len(toks)))
\* tokens.filter((t) => t.address !== USDC_MINT)
\*       .slice(0, Math.min(env.QUOTE_MAX_TOKENS, tokens.length))
SelectToQuote(toks, max) ==
  LET NotBase(t) == t.address # USDC_MINT
  IN Slice(SelectSeq(toks, NotBase), Min(max, Len(toks)))

\* step 5: each row takes the numbers of its mint's metrics
ApplyMetrics_ByPosition(rws, mm) ==
  [k \in 1..Len(rws) |->
     IF k > Len(toQuote) \/ toQuote[k].address \notin DOMAIN mm THEN rws[k]
     ELSE LET m == mm[toQuote[k].address]
          IN [rws[k] EXCEPT
                !.impact_1k_pct = IF m.impact_1k_pct.null THEN @ ELSE m.impact_1k_pct,
                !.spread_pct = IF m.spread_pct.null THEN @ ELSE m.spread_pct]]
ApplyMetrics(rws, mm) ==
  IF DOMAIN mm = {} THEN rws
  ELSE [k \in 1..Len(rws) |->
          IF rws[k].mint \notin DOMAIN mm THEN rws[k]
          ELSE LET m == mm[rws[k].mint]
               IN [rws[k] EXCEPT
                     !.impact_1k_pct = IF m.impact_1k_pct.null THEN @ ELSE m.impact_1k_pct,
                     !.spread_pct = IF m.spread_pct.null THEN @ ELSE m.spread_pct]]

\* priceRows.push({ ts, mint: USDC_MINT, price_usd: 1.0 })
PushBasePrice_Skipped(prs, t) == prs
PushBasePrice(prs, t) == Append(prs, PriceRow(t, USDC_MINT, Price(FALSE, OneUsd)))

\* savedTokens: rows.length
SavedTokens_Resolved(rws, toks) == Len(toks)
SavedTokens(rws, toks) == Len(rws)

PersistOps == <<"upsertTokens", "insertSnapshots", "insertPrices">>
PersistFaults == 0..Len(PersistOps)

\* the rest of the run, in one turn: the base price row, the merge, the three
\* writes of the batch and the result; `fault` is the write that throws for a
\* reason of the store's (0 for none), and insertSnapshots throws on a PRIMARY
\* KEY conflict
MergeAndPersist(fault) ==
  LET prices1 == PushBasePrice(priceRows, RowTs(ts, now))
      rows1 == ApplyMetrics(rows, metricsMap)
      exec1 == Len(tokenRows) > 0
      fail1 == exec1 /\ fault = 1
      d1 == IF exec1 /\ ~fail1 THEN upsertTokens(db, tokenRows) ELSE db
      exec2 == ~fail1 /\ Len(rows1) > 0
      fail2 == exec2 /\ (fault = 2 \/ snapshotsConflict(d1, rows1))
      d2 == IF exec2 /\ ~fail2 THEN insertSnapshots(d1, rows1) ELSE d1
      exec3 == ~fail1 /\ ~fail2 /\ Len(prices1) > 0
      fail3 == exec3 /\ fault = 3
      d3 == IF exec3 /\ ~fail3 THEN insertPrices(d2, prices1) ELSE d2
      exec == <<exec1, exec2, exec3>>
      fail == <<fail1, fail2, fail3>>
      Logged(k) == IF exec[k] THEN <<Op(PersistOps[k], ~fail[k])>> ELSE <<>>
  IN /\ IF fault = 0 THEN TRUE ELSE fail[fault]
     /\ priceRows' = prices1
     /\ rows' = rows1
     /\ db' = d3
     /\ storeLog' = storeLog \o Logged(1) \o Logged(2) \o Logged(3)
     /\ IF fail1 \/ fail2 \/ fail3
          THEN /\ CliExit(TRUE)
               /\ result' = result
          ELSE /\ CliExit(FALSE)
               /\ result' =
                    [ts |-> ts, savedTokens |-> SavedTokens(rows1, tokens),
                     prunedRows |->
                       [snapshots |-> counts.beforeSnaps - counts.afterSnaps,
                        prices |-> counts.beforePrices - counts.afterPrices]]

\* the run resumes after await Promise.all of the on-chain units: metricsMap
\* = {}, and with quotes on, toQuote is selected and its units are submitted;
\* with quotes off the run goes on to the merge and the writes
AfterOnChain(fault) ==
  /\ pc = "onchain"
  /\ PromiseAll(onchain) # "pending"
  /\ IF PromiseAll(onchain) = "rejected"
       THEN /\ fault = 0
            /\ CliExit(TRUE)
            /\ UNCHANGED <<toQuote, qLimit, quotes, requested, rows, priceRows, db,
                           storeLog, result>>
       ELSE IF ShouldQuote(offline, quotesEnabled)
         THEN LET sel == SelectToQuote(tokens, env.QUOTE_MAX_TOKENS)
                  r == SubmitAll(pLimit, QuoteConcurrency, 1, Len(sel))
              IN /\ fault = 0
                 /\ toQuote' = sel
                 /\ qLimit' = r.limit
                 /\ quotes' = Launched([k \in 1..Len(sel) |-> Unit("queued", "none", "none")],
                                       r.started)
                 /\ requested' = requested \cup ImpactRequests(sel, r.started)
                 /\ pc' = "quotes"
                 /\ UNCHANGED <<exitCode, rows, priceRows, db, storeLog, result>>
         ELSE /\ MergeAndPersist(fault)
              /\ UNCHANGED <<toQuote, qLimit, quotes, requested>>
  /\ UNCHANGED <<now, offline, quotesEnabled, env, resolved, db0, ts, tokens,
                 counts, rpcLimit, onchain, tokenRows, metricsMap, notSnapshot>>

\* metricsMap[t.address] = m
SetMetrics(mm, mint, m) ==
  [a \in DOMAIN mm \cup {mint} |-> IF a = mint THEN m ELSE mm[a]]

\* the quote unit of toQuote[j] ends, its three jupQuote calls having returned
\* q[1] (impact), q[2] (buy leg) and q[3] (sell leg, when it is asked); then
\* the limiter's callback runs
QuoteCompletes(j, q) ==
  /\ j \in DOMAIN quotes
  /\ quotes[j].state = "running"
  /\ LET t == toQuote[j]
         u == QuoteUnit(t, q[1], q[2], q[3])
         r == onFulfilled(qLimit)
     IN /\ priceRows' = priceRows \o
                          [k \in 1..Len(u.prices) |->
                             PriceRow(RowTs(ts, now), t.address, u.prices[k])]
        /\ metricsMap' = SetMetrics(metricsMap, t.address, u.metrics)
        /\ qLimit' = r.limit
        /\ quotes' = Launched([quotes EXCEPT ![j] = Unit("done", Answered(q), "ok")],
                              r.started)
        /\ requested' = requested \cup LegRequests(t, u.legs)
                          \cup ImpactRequests(toQuote, r.started)
  /\ now' = now + 1
  /\ UNCHANGED <<pc, offline, quotesEnabled, env, resolved, db, db0, ts, tokens,
                 counts, rpcLimit, onchain, rows, tokenRows, toQuote, storeLog,
                 result, exitCode, notSnapshot>>

\* the run resumes after await Promise.all of the quote units, and goes on to
\* the merge and the writes
AfterQuotes(fault) ==
  /\ pc = "quotes"
  /\ PromiseAll(quotes) # "pending"
  /\ IF PromiseAll(quotes) = "rejected"
       THEN /\ fault = 0
            /\ CliExit(TRUE)
            /\ UNCHANGED <<rows, priceRows, db, storeLog, result>>
       ELSE MergeAndPersist(fault)
  /\ UNCHANGED <<now, offline, quotesEnabled, env, resolved, db0, ts, tokens,
                 counts, rpcLimit, onchain, tokenRows, toQuote, qLimit, quotes,
                 metricsMap, requested, notSnapshot>>

NextSnapshot ==
  \/ Begin
  \/ Resolve
  \/ \E fault \in RetentionFaults : Retention(fault)
  \/ LaunchOnChain
  \/ \E k \in 1..MaxTokens, outcome \in {"ok", "notfound", "fail"} :
       OnChainCompletes(k, outcome)
  \/ \E fault \in PersistFaults : AfterOnChain(fault)
  \/ \E j \in 1..MaxTokens, q \in RunQuotes : QuoteCompletes(j, q)
  \/ \E fault \in PersistFaults : AfterQuotes(fault)

\* ------------------------------------------------- the token-universe resolver
\* the calls of loadVerifiedTokens a behaviour makes
MaxCalls == 3
\* env.JUP_TOKENS_CACHE_TTL_MS
CacheTtlMs == HourMs
\* the time fetchJsonWithBackoff takes to answer or give up
FetchMs == 1

\* a key of a token object: a number, the value undefined, or no such key
NumKey(v) == [kind |-> "number", v |-> v]
UndefinedKey == [kind |-> "undefined", v |-> 0]
NoKey == [kind |-> "absent", v |-> 0]
\* a TokenRow, as far as the resolver can make two of them differ
ListedToken(address, decimals) == [address |-> address, decimals |-> decimals]

\* JSON.stringify of a list of TokenRow: a key whose value is undefined is
\* left out
Stringify(items) ==
  [k \in 1..Len(items) |->
     ListedToken(items[k].address,
           IF items[k].decimals = UndefinedKey THEN NoKey ELSE items[k].decimals)]

\* the list readSeed falls back to
BuiltinSeed == <<ListedToken("SOL", NumKey(9)), ListedToken(USDC_MINT, NumKey(6))>>

\* what the files can hold before the first call
NoFile == [kind |-> "absent", ts |-> 0, items |-> <<>>]
CorruptFile == [kind |-> "corrupt", ts |-> 0, items |-> <<>>]
ListedTokens ==
  <<ListedToken("A", NumKey(6)), ListedToken("B", NoKey), ListedToken("C", NumKey(9)),
    ListedToken("D", NumKey(6))>>
CacheFiles ==
  {NoFile, CorruptFile} \cup
  {[kind |-> "ok", ts |-> t, items |-> l] :
     t \in {0, T0 - 1}, l \in {<<>>, ListedTokens}}
SeedFiles ==
  {NoFile, [kind |-> "ok", ts |-> 0, items |-> <<>>],
   [kind |-> "ok", ts |-> 0,
    items |-> <<ListedToken("D", NumKey(6)), ListedToken("SOL", NumKey(9)),
                ListedToken("B", NoKey), ListedToken("A", NumKey(6))>>]}

\* what the directory answers: an entry has an id (a string or not) and may
\* have decimals
Entry(isString, id, decimals) ==
  [isString |-> isString, id |-> id, decimals |-> decimals]
DirectoryFails == [throws |-> TRUE, arr |-> <<>>]
DirectoryAnswers(arr) == [throws |-> FALSE, arr |-> arr]
Directory ==
  {DirectoryFails, DirectoryAnswers(<<>>),
   DirectoryAnswers(<<Entry(FALSE, "", NumKey(6))>>),
   DirectoryAnswers(<<Entry(TRUE, "C", NoKey), Entry(FALSE, "", NumKey(6)),
                      Entry(TRUE, "A", NumKey(6)), Entry(TRUE, "D", NumKey(9)),
                      Entry(TRUE, "B", NoKey)>>)}

\* no list: null
NoList == [null |-> TRUE, items |-> <<>>]
List(items) == [null |-> FALSE, items |-> items]

readSeed(seed, lim) ==
  IF seed.kind = "ok" /\ Len(seed.items) > 0
    THEN Slice(seed.items, lim)
    ELSE Slice(BuiltinSeed, lim)

readCache_IgnoresSoft(cache, lim, soft, nowMs) ==
  IF cache.kind # "ok" THEN NoList
  ELSE IF nowMs - cache.ts < CacheTtlMs THEN List(Slice(cache.items, lim))
  ELSE NoList

readCache(cache, lim, soft, nowMs) ==
  IF cache.kind # "ok" THEN NoList
  ELSE IF soft THEN List(Slice(cache.items, lim))
  ELSE IF nowMs - cache.ts < CacheTtlMs THEN List(Slice(cache.items, lim))
  ELSE NoList

\* writeFileSync(TOKENS_CACHE_PATH, JSON.stringify({ ts: Date.now(), items }))
WriteCache(nowMs, items) ==
  [kind |-> "ok", ts |-> nowMs, items |-> Stringify(items)]

\* tokens, from what the directory answered: null unless it is a non-empty array
DirectoryTokens(resp) ==
  IF resp.throws \/ Len(resp.arr) = 0 THEN NoList
  ELSE LET kept == SelectSeq(resp.arr, LAMBDA x : x.isString)
       IN List([k \in 1..Len(kept) |->
                  ListedToken(kept[k].id,
                        IF kept[k].decimals = NoKey THEN UndefinedKey
                        ELSE kept[k].decimals)])

\* finalList
FinalList_NoSlice(chosen, lim) == chosen

FinalList(chosen, lim) == Slice(chosen, lim)

\* one call of loadVerifiedTokens: what it found, returned and did
LoadCall(path, at, returned, wrote) ==
  [path |-> path, at |-> at, returned |-> returned, wrote |-> wrote,
   before |-> cacheFile]

InitTokens ==
  /\ cacheFile \in CacheFiles
  /\ seedFile \in SeedFiles
  /\ lvOffline \in BOOLEAN
  /\ lvLimit \in 1..MaxTokens
  /\ lvNow = T0
  /\ lvCalls = <<>>

\* loadVerifiedTokens(limit) with offline set, gap ms after the last call
LoadOffline(gap) ==
  /\ lvOffline
  /\ Len(lvCalls) < MaxCalls
  /\ LET nowMs == lvNow + gap
         soft == readCache(cacheFile, lvLimit, TRUE, nowMs)
         cached == IF soft.null THEN readSeed(seedFile, lvLimit) ELSE soft.items
     IN /\ cacheFile' = WriteCache(nowMs, cached)
        /\ lvNow' = nowMs
        /\ lvCalls' = Append(lvCalls,
             LoadCall(IF soft.null THEN "offline-seed" ELSE "offline-cache",
                  nowMs, cached, TRUE))
  /\ UNCHANGED <<seedFile, lvOffline, lvLimit, notTokens>>

\* loadVerifiedTokens(limit) online, gap ms after the last call; resp is what
\* the directory would answer
LoadOnline(gap, resp) ==
  /\ ~lvOffline
  /\ Len(lvCalls) < MaxCalls
  /\ LET nowMs == lvNow + gap
         cached == readCache(cacheFile, lvLimit, FALSE, nowMs)
         later == nowMs + FetchMs
         listed == DirectoryTokens(resp)
         soft == readCache(cacheFile, lvLimit, TRUE, later)
         useTokens == ~listed.null /\ Len(listed.items) > 0
         finalList ==
           FinalList(IF useTokens THEN listed.items
                     ELSE IF soft.null THEN readSeed(seedFile, lvLimit)
                     ELSE soft.items, lvLimit)
     IN IF ~cached.null
          THEN /\ lvNow' = nowMs
               /\ lvCalls' = Append(lvCalls,
                    LoadCall("fresh", nowMs, cached.items, FALSE))
               /\ UNCHANGED cacheFile
          ELSE /\ cacheFile' = WriteCache(later, finalList)
               /\ lvNow' = later
               /\ lvCalls' = Append(lvCalls,
                    LoadCall(IF useTokens THEN "directory"
                         ELSE IF soft.null THEN "seed" ELSE "stale",
                         later, finalList, TRUE))
  /\ UNCHANGED <<seedFile, lvOffline, lvLimit, notTokens>>

NextTokens ==
  \/ \E gap \in {1, CacheTtlMs} : LoadOffline(gap)
  \/ \E gap \in {1, CacheTtlMs}, resp \in Directory : LoadOnline(gap, resp)
\* ------------------------------------------------------- specifications
\* no limiter under test
IdleLimit ==
  /\ concurrency = 1
  /\ limit = pLimit
  /\ submitted = 0
  /\ unitState = [u \in Units |-> "new"]
  /\ unitResult = [u \in Units |-> "none"]
  /\ callerGot = [u \in Units |-> NoOutcome]
  /\ startOrder = <<>>
  /\ waited = {}
  /\ releases = [u \in Units |-> 0]

\* no run of the snapshot command
IdleSnapshot ==
  /\ now = T0
  /\ pc = "idle"
  /\ offline = FALSE
  /\ quotesEnabled = FALSE
  /\ env = [QUOTE_MAX_TOKENS |-> DefaultQuoteMaxTokens, RPC_URL |-> "RPC_URL",
            TOKEN_LIMIT |-> MaxTokens]
  /\ resolved = [throws |-> FALSE, list |-> <<>>]
  /\ db = EmptyDB
  /\ db0 = EmptyDB
  /\ ts = 0
  /\ tokens = <<>>
  /\ counts = NoCounts
  /\ rpcLimit = pLimit
  /\ onchain = <<>>
  /\ rows = <<>>
  /\ tokenRows = <<>>
  /\ priceRows = <<>>
  /\ toQuote = <<>>
  /\ qLimit = pLimit
  /\ quotes = <<>>
  /\ metricsMap = <<>>
  /\ requested = {}
  /\ storeLog = <<>>
  /\ result = NoResult
  /\ exitCode = 0

\* no fetch under test
IdleFetch ==
  /\ attempts = 0
  /\ maxDelayMs = 0
  /\ i = 0
  /\ lastErr = Undefined
  /\ fpc = "idle"
  /\ observed = <<>>
  /\ requests = 0
  /\ sleeps = <<>>
  /\ fetched = Undefined

\* no call of pruneOlderThanMs under test
IdlePrune ==
  /\ pruneDb = EmptyDB
  /\ pruneDb0 = EmptyDB
  /\ pruneCutoff = 0
  /\ pruneDone = FALSE

\* no call of loadVerifiedTokens under test
IdleTokens ==
  /\ cacheFile = NoFile
  /\ seedFile = NoFile
  /\ lvOffline = FALSE
  /\ lvLimit = 0
  /\ lvNow = 0
  /\ lvCalls = <<>>

\* no quote unit under test
IdleQuote ==
  /\ unitToken = Token(USDC_MINT)
  /\ unitAnswers = <<NoQuote, NoQuote, NoQuote>>
  /\ unitOut = NoUnitOut

\* the limiter alone: any submissions, any interleaving of completions
LimitStart ==
  InitLimit /\ IdleFetch /\ IdleSnapshot /\ IdlePrune /\ IdleTokens /\ IdleQuote
SpecLimit == LimitStart /\ [][NextLimit]_vars
\* the limiter when every started unit settles in the end and the event loop
\* runs every callback that is ready; callers may stop submitting at any time
LimitFairness ==
  /\ WF_vars(\E u \in Units, res \in {"ok", "fail"} : UnitSettles(u, res))
  /\ WF_vars(\E u \in Units : Settled(u))
SpecLimitFair == LimitStart /\ [][NextLimit]_vars /\ LimitFairness

\* one call of fetchJsonWithBackoff, any responses
FetchStart ==
  InitFetch /\ IdleLimit /\ IdleSnapshot /\ IdlePrune /\ IdleTokens /\ IdleQuote

\* one run of the snapshot command, for any configuration, universe, store and
\* any outcome and order of the lookups, quotes and store operations
Init ==
  InitSnapshot /\ IdleLimit /\ IdleFetch /\ IdlePrune /\ IdleTokens /\ IdleQuote
Next == NextSnapshot
Spec == Init /\ [][Next]_vars
SpecFetch == FetchStart /\ [][NextFetch]_vars

\* one call of pruneOlderThanMs, for any store and cutoff
PruneStart ==
  InitPrune /\ IdleLimit /\ IdleFetch /\ IdleSnapshot /\ IdleTokens /\ IdleQuote
SpecPrune == PruneStart /\ [][NextPrune]_vars

\* calls of loadVerifiedTokens, for any files, mode, limit and directory answers
TokensStart ==
  InitTokens /\ IdleLimit /\ IdleFetch /\ IdleSnapshot /\ IdlePrune /\ IdleQuote
SpecTokens == TokensStart /\ [][NextTokens]_vars

\* one quote unit, for any token and any answers of the quote service
QuoteStart ==
  InitQuote /\ IdleLimit /\ IdleFetch /\ IdleSnapshot /\ IdlePrune /\ IdleTokens
SpecQuote == QuoteStart /\ [][NextQuote]_vars

\* ------------------------------------------ properties of fetchJsonWithBackoff
FetchDone == fpc \in {"returned", "raised"}

\* C4: a failed attempt whose status is neither 429 nor in 500..599 (or that
\* carries no status) is terminal: that same failure is raised at once, with
\* no sleep and no request after it, whatever number of attempts remains.
C4_TerminalFailureRaisedAtOnce ==
  (lastErr # Undefined /\ ~(lastErr.hasStatus /\ lastErr.status = 429)
                       /\ ~(lastErr.hasStatus /\ lastErr.status \in 500..599)) =>
    /\ fpc = "raised"
    /\ fetched = lastErr
    /\ requests = lastErr.attempt + 1
    /\ Len(sleeps) = lastErr.attempt
    /\ \A k \in 1..Len(observed) - 1 : Retriable(observed[k])

\* C4 witness: a failure without status on the second of three attempts was raised
C4_Witness ==
  /\ attempts = 3
  /\ fpc = "raised"
  /\ fetched = Failure(1, FALSE, 0)
  /\ requests = 2

\* C5: the call ends after at most maxAttempts requests: a success returns
\* that response's body at once, and when all maxAttempts attempts failed with
\* a retriable status the failure of the last attempt is raised.
C5_EndsWithinMaxAttempts ==
  /\ requests <= attempts
  /\ Len(sleeps) <= attempts
  /\ FetchDone \/ ENABLED NextFetch
  /\ fpc = "returned" =>
       /\ fetched = Body(requests - 1)
       /\ Len(observed) = requests - 1
  /\ (fpc = "raised" /\ attempts > 0 /\ Retriable(fetched)) =>
       /\ requests = attempts
       /\ Len(observed) = attempts
       /\ fetched = observed[attempts]
       /\ fetched.attempt = attempts - 1

\* C5 witness: all attempts failed with retriable statuses, the last one
\* differing from the earlier ones, and the last failure was raised
C5_Witness ==
  /\ attempts = MaxAttempts
  /\ fpc = "raised"
  /\ Len(observed) = attempts
  /\ \A k \in 1..attempts - 1 : observed[k].status = 429
  /\ fetched = Failure(attempts - 1, TRUE, 503)

\* C18: a back-off sleep is taken only when an attempt remains after it, so
\* every sleep is followed by a new request, and a call that raises after
\* maxAttempts retriable failures has slept exactly maxAttempts - 1 times.
C18_SleepsOnlyIfAttemptRemains ==
  /\ fpc = "sleep" => i + 1 < attempts
  /\ Len(sleeps) <= requests
  /\ fpc \in {"returned", "raised"} => Len(sleeps) = requests - 1 \/ requests = 0
  /\ (fpc = "raised" /\ attempts > 0 /\ Len(observed) = attempts
        /\ Retriable(observed[attempts])) => Len(sleeps) = attempts - 1

\* ------------------------------------------------- properties of the limiter
Running == {u \in Units : unitState[u] = "running"}
Started(u) == unitState[u] \in {"running", "settled", "done"}
\* position of unit u in startOrder (0 when it has not been started)
StartPos(u) ==
  IF \E k \in 1..Len(startOrder) : startOrder[k] = u
    THEN CHOOSE k \in 1..Len(startOrder) : startOrder[k] = u
    ELSE 0

\* C1: the number of units that have been started and have not yet settled
\* never exceeds the limiter's concurrency, whatever the submissions and the
\* interleaving of successes and failures.
C1_AtMostConcurrencyRunning ==
  /\ Cardinality(Running) <= concurrency
  /\ limit.active <= concurrency

\* C1 witness: the limiter is full with a unit waiting, after a unit has failed
C1_Witness ==
  /\ Cardinality(Running) = concurrency
  /\ Len(limit.queue) > 0
  /\ \E u \in Units : unitState[u] = "done" /\ unitResult[u] = "fail"

\* C6: units are started strictly in submission order: for submissions a
\* before b (a < b), b is never started before a has been started.
C6_StartedInSubmissionOrder ==
  \A a, b \in Units :
    (a < b /\ Started(b)) => (Started(a) /\ StartPos(a) < StartPos(b))

\* C6 witness: two units waited in the queue at once and both have been started
C6_Witness ==
  /\ \E a, b \in waited : a < b /\ Started(a) /\ Started(b)
  /\ \E u \in Units : unitResult[u] = "fail"

\* C7: a unit's failure reaches only its own caller and affects no other unit:
\* every caller's outcome is the outcome of its own unit, a finished unit has
\* released its slot exactly once (so active counts exactly the started,
\* unfinished units) and a unit waits in the queue only while the limiter is full.
C7_FailureIsolated ==
  /\ \A u \in Units :
       callerGot[u] # NoOutcome => callerGot[u] = [kind |-> unitResult[u], unit |-> u]
  /\ \A u \in Units : releases[u] = IF unitState[u] = "done" THEN 1 ELSE 0
  /\ limit.active = Cardinality({u \in Units : unitState[u] \in {"running", "settled"}})
  /\ Len(limit.queue) > 0 => limit.active = concurrency

\* C7 witness: a unit failed, its caller got the failure, a unit that waited
\* behind it has been started and another caller got its own value
C7_Witness ==
  \E u, v, w \in Units :
    /\ callerGot[u] = [kind |-> "fail", unit |-> u]
    /\ v \in waited /\ Started(v) /\ StartPos(v) > StartPos(u)
    /\ w # u /\ callerGot[w] = [kind |-> "ok", unit |-> w]

\* every submitted unit has settled and its callback has run
AllSettled == \A u \in 1..submitted : unitState[u] = "done"

\* a submitted unit has been started and its caller has the unit's own outcome
Served(u) ==
  unitState[u] # "new" =>
    (Started(u) /\ callerGot[u] = [kind |-> unitResult[u], unit |-> u])

\* C17: when every started unit settles in the end, every submitted unit is
\* started in the end and its caller gets the unit's own outcome, whatever the
\* mix of successes and failures (an outcome, once given, stays, so from some
\* point on every submitted unit has been served); and whenever all submitted
\* units have settled the queue is empty and the active count is 0.
C17_LimiterProgress ==
  /\ <>[](\A u \in Units : Served(u))
  /\ [](AllSettled => (limit.queue = <<>> /\ limit.active = 0))

\* C17 witness: all units were submitted, some had to wait in the queue, some
\* failed, and every caller has its outcome with the limiter empty again
C17_Witness ==
  /\ submitted = NUnits
  /\ AllSettled
  /\ Cardinality(waited) >= 2
  /\ \E u \in waited : unitResult[u] = "fail"
  /\ \E u \in Units \ waited : unitResult[u] = "fail"
  /\ \A u \in Units : callerGot[u] # NoOutcome
  /\ limit = pLimit

\* ------------------------------------------- properties of the snapshot run
RunEnded == pc \in {"returned", "raised"}
AllDone(us) == \A k \in DOMAIN us : us[k].state = "done"
BatchWrites == {"upsertTokens", "insertSnapshots", "insertPrices"}
StoreFailed == \E k \in DOMAIN storeLog : ~storeLog[k].ok
BatchWriteFailed ==
  \E k \in DOMAIN storeLog : storeLog[k].op \in BatchWrites /\ ~storeLog[k].ok
BatchWriteTried == \E k \in DOMAIN storeLog : storeLog[k].op \in BatchWrites

C3_PhasesJoinedByBarrier ==
  /\ (quotes # <<>> \/ \E r \in requested : r.kind = "quote") =>
       (AllDone(onchain) /\ rpcLimit = pLimit)
  /\ BatchWriteTried =>
       /\ AllDone(onchain) /\ rpcLimit = pLimit
       /\ AllDone(quotes) /\ qLimit = pLimit

\* C3 witness: lookups succeeded, threw and found no account; three quote units
\* were launched, so one of them waited for a slot; the batch has been written
C3_Witness ==
  /\ pc = "returned"
  /\ Len(quotes) = 3
  /\ {onchain[k].outcome : k \in DOMAIN onchain} = {"ok", "fail", "notfound"}
  /\ storeLog[Len(storeLog)] = Op("insertPrices", TRUE)

\* C9: every snapshot row and price row of the run, and every row the run has
\* added to the store, carries the run's ts.
C9_RowsCarryRunTs ==
  /\ \A k \in DOMAIN rows : rows[k].ts = ts
  /\ \A k \in DOMAIN priceRows : priceRows[k].ts = ts
  /\ \A r \in db.snapshots \ db0.snapshots : r.ts = ts
  /\ \A r \in db.prices \ db0.prices : r.ts = ts

\* C9 witness: the clock has moved on since ts was read, and the store has
\* received a snapshot row, a mid price from the quotes and the base price row
C9_Witness ==
  /\ pc = "returned"
  /\ now > ts + 2
  /\ db.snapshots \ db0.snapshots # {}
  /\ \E r \in db.prices \ db0.prices : r.mint = USDC_MINT
  /\ \E r \in db.prices \ db0.prices : r.mint # USDC_MINT

\* the batch of the run: tokenRows, rows and priceRows; a row is in the store
\* when the store holds it under its key
TokensIn == \A k \in DOMAIN tokenRows : \E e \in db.tokens : e.mint = tokenRows[k].mint
SnapshotsIn == \A k \in DOMAIN rows : \E r \in db.snapshots : SameTsMint(r, rows[k])
PricesIn == \A k \in DOMAIN priceRows : \E r \in db.prices : SameTsMint(r, priceRows[k])
\* the store holds nothing of the run: the directory is as the run found it and
\* no row carries the run's ts
NothingIn ==
  /\ db.tokens = db0.tokens
  /\ \A r \in db.snapshots : r.ts # ts
  /\ \A r \in db.prices : r.ts # ts

\* C8: when the run has ended, returned or raised, either all of the batch's
\* directory entries, snapshot rows and price rows are in the store or none is.
C8_BatchWholeOrNothing ==
  RunEnded => ((TokensIn /\ SnapshotsIn /\ PricesIn) \/ NothingIn)

\* the rows of the store the run found that are older than the cutoff
Cutoff == ts - RetentionMs
Expired(table) == {r \in db0[table] : r.ts < Cutoff}
\* the store has been pruned: no expired row is left, every other row is
Pruned ==
  \A table \in {"snapshots", "prices"} :
    \A r \in db0[table] : r \in db[table] <=> r \notin Expired(table)
\* one of the store operations up to the two DELETEs of the pruning failed
PruningFailed ==
  \E k \in DOMAIN storeLog : k <= 4 /\ ~storeLog[k].ok
EmptyUniverseResult ==
  [ts |-> ts, savedTokens |-> 0,
   prunedRows |-> [snapshots |-> Cardinality(Expired("snapshots")),
                   prices |-> Cardinality(Expired("prices"))]]

\* C10 as stated: every run prunes with cutoff ts - 48 h, before any request;
\* a run with an empty universe prunes, asks nothing and returns savedTokens = 0
\* with the pruned counts.
C10_PrunesInEveryRun ==
  /\ RunEnded => Pruned
  /\ requested # {} => Pruned
  /\ (RunEnded /\ tokens = <<>>) =>
       (requested = {} /\ pc = "returned" /\ result = EmptyUniverseResult)

\* C10 amended: a run that has asked anything, or that has returned, has
\* pruned with cutoff ts - 48 h; a run ends without having pruned only by
\* raising the failure of a store operation of the pruning step; a run with an
\* empty universe asks nothing and, unless a store operation of step 2 fails
\* and the run raises, returns savedTokens = 0 with the pruned counts.
C10_PrunesUnlessStoreFails ==
  /\ (requested # {} \/ pc \in {"launch", "onchain", "quotes", "returned"}) => Pruned
  /\ (RunEnded /\ ~Pruned) => (pc = "raised" /\ PruningFailed)
  /\ tokens = <<>> => requested = {}
  /\ (RunEnded /\ tokens = <<>>) =>
       IF StoreFailed THEN pc = "raised"
       ELSE pc = "returned" /\ result = EmptyUniverseResult

\* C10 witness: the resolution of the universe threw; the run pruned the rows
\* older than 48 h, asked nothing and returned savedTokens = 0
C10_Witness ==
  /\ pc = "returned"
  /\ resolved.throws
  /\ requested = {}
  /\ Pruned
  /\ Expired("snapshots") # {} /\ Expired("prices") # {}
  /\ result = EmptyUniverseResult

\* the token a quote request measures: the output of a buy, the input of a sell
Measured(r) == IF r.leg = "sell" THEN r.inputMint ELSE r.outputMint

\* C11: the quote-base asset is never in the quoted subset, no quote request
\* measures it and it gets no metrics; its snapshot rows, in the run and in
\* the store, keep impact and spread null.
C11_BaseNeverQuoted ==
  /\ \A k \in DOMAIN toQuote : toQuote[k].address # USDC_MINT
  /\ \A r \in requested : r.kind = "quote" => Measured(r) # USDC_MINT
  /\ USDC_MINT \notin DOMAIN metricsMap
  /\ \A k \in DOMAIN rows :
       rows[k].mint = USDC_MINT => (rows[k].impact_1k_pct.null /\ rows[k].spread_pct.null)
  /\ \A r \in db.snapshots \ db0.snapshots :
       r.mint = USDC_MINT => (r.impact_1k_pct.null /\ r.spread_pct.null)

\* C11 witness: a run with quotes on stored a row of the base with null
\* metrics next to a row that took its impact and spread from the quotes
C11_Witness ==
  /\ pc = "returned"
  /\ \E r \in db.snapshots \ db0.snapshots : r.mint = USDC_MINT
  /\ \E r \in db.snapshots \ db0.snapshots :
       r.mint # USDC_MINT /\ ~r.impact_1k_pct.null /\ ~r.spread_pct.null

\* ------------------------------------------- properties of pruneOlderThanMs
\* C12: after pruneOlderThanMs(db, cutoff) the snapshots and the prices are
\* exactly the rows the store had with ts >= cutoff, unchanged, and the tokens
\* and meta tables are as they were.
C12_PruneDeletesExactlyOlder ==
  pruneDone =>
    /\ pruneDb.snapshots = {r \in pruneDb0.snapshots : r.ts >= pruneCutoff}
    /\ pruneDb.prices = {r \in pruneDb0.prices : r.ts >= pruneCutoff}
    /\ pruneDb.tokens = pruneDb0.tokens
    /\ pruneDb.meta = pruneDb0.meta

\* C12 witness: with cutoff = now - 48 h, a store holding snapshot and price
\* rows 49 h, 48 h and 47 h old has lost the rows 49 h old and only those
C12_Witness ==
  /\ pruneDone
  /\ pruneCutoff = T0 - RetentionMs
  /\ {r.ts : r \in pruneDb0.snapshots} = PruneTimes
  /\ {r.ts : r \in pruneDb0.prices} = PruneTimes
  /\ {r.ts : r \in pruneDb.snapshots} = {T0 - RetentionMs, T0 - 47 * HourMs}
  /\ {r.ts : r \in pruneDb.prices} = {T0 - RetentionMs, T0 - 47 * HourMs}

\* --------------------------------- further properties of the snapshot run
\* the price row of the quote-base asset: (ts, base mint, 1.0)
BasePriceRow == PriceRow(ts, USDC_MINT, Price(FALSE, OneUsd))
\* the base price rows the run pushed
BasePushed == {k \in DOMAIN priceRows : priceRows[k].mint = USDC_MINT}

\* C13 as stated: a run that returned a result has appended exactly one price
\* row for the quote-base asset, (ts, base mint, 1.0), and the store holds it.
C13_BasePriceRowInEveryResult ==
  pc = "returned" =>
    /\ Cardinality(BasePushed) = 1
    /\ \A k \in BasePushed : priceRows[k] = BasePriceRow
    /\ {r \in db.prices : r.ts = ts /\ r.mint = USDC_MINT} = {BasePriceRow}

\* C13 amended: a run that returned a result for a non-empty universe has
\* appended exactly one price row for the quote-base asset, (ts, base mint,
\* 1.0), and the store holds it; a run that returned for an empty universe
\* has appended and stored no price row at all.
C13_BasePriceRowUnlessEmpty ==
  pc = "returned" =>
    IF tokens # <<>>
      THEN /\ Cardinality(BasePushed) = 1
           /\ \A k \in BasePushed : priceRows[k] = BasePriceRow
           /\ {r \in db.prices : r.ts = ts /\ r.mint = USDC_MINT} = {BasePriceRow}
      ELSE /\ priceRows = <<>>
           /\ \A r \in db.prices : r.ts # ts

\* C13 witness: every lookup failed and every quote failed, and the run still
\* stored the base price row, the only row of its batch
C13_Witness ==
  /\ pc = "returned"
  /\ Len(tokens) > 1
  /\ \A k \in DOMAIN onchain : onchain[k].outcome \in {"fail", "notfound"}
  /\ \E m \in DOMAIN metricsMap : metricsMap[m].impact_1k_pct.null
  /\ priceRows = <<BasePriceRow>>
  /\ db.prices \ db0.prices = {BasePriceRow}

\* scenario A: the universe is [BASE, X] and X's on-chain lookup has failed
\* (no account, or a lookup threw)
ScenarioA ==
  /\ tokens = <<Token(USDC_MINT), Token("X")>>
  /\ onchain # <<>>
  /\ onchain[2].outcome \in {"fail", "notfound"}
\* the price rows of the run that are in the store
RunPrices == {r \in db.prices : r.ts = ts}

\* C14 as stated: in scenario A a run that returns has stored no snapshot row
\* for X and exactly one price row, BASE at 1.0, and returns savedTokens = 0.
C14_ScenarioA ==
  (ScenarioA /\ pc = "returned") =>
    /\ \A r \in db.snapshots : ~(r.ts = ts /\ r.mint = "X")
    /\ RunPrices = {BasePriceRow}
    /\ result.savedTokens = 0

\* C14 amended: in scenario A the run, unless a store operation fails, returns
\* having stored no snapshot row for X and exactly one price row for BASE, at
\* 1.0; savedTokens is 1 when BASE's own lookup succeeded (its row is stored)
\* and 0 when it failed too; the only other price row there can be is X's mid
\* price, when quotes are on and X's round-trip quote gave one.
C14_ScenarioA_BaseCounted ==
  (ScenarioA /\ RunEnded /\ ~StoreFailed) =>
    /\ pc = "returned"
    /\ \A r \in db.snapshots : ~(r.ts = ts /\ r.mint = "X")
    /\ {r \in RunPrices : r.mint = USDC_MINT} = {BasePriceRow}
    /\ \A r \in RunPrices \ {BasePriceRow} :
         /\ r.mint = "X"
         /\ ShouldQuote(offline, quotesEnabled)
         /\ ~metricsMap["X"].spread_pct.null
    /\ ~ShouldQuote(offline, quotesEnabled) => RunPrices = {BasePriceRow}
    /\ result.savedTokens = (IF onchain[1].outcome = "ok" THEN 1 ELSE 0)
    /\ result.savedTokens = Cardinality({r \in db.snapshots : r.ts = ts})

\* C14 witness: X's lookup threw, BASE's succeeded: the run returned
\* savedTokens = 1 with BASE's snapshot row, BASE at 1.0 and X's mid price
C14_Witness ==
  /\ ScenarioA /\ pc = "returned"
  /\ onchain[2].outcome = "fail" /\ onchain[1].outcome = "ok"
  /\ result.savedTokens = 1
  /\ {r.mint : r \in db.snapshots \ db0.snapshots} = {USDC_MINT}
  /\ {r.mint : r \in RunPrices} = {USDC_MINT, "X"}

\* quotes are disabled or the run is offline
QuotesOff == offline \/ ~quotesEnabled
NullMetrics(r) == r.impact_1k_pct.null /\ r.spread_pct.null
\* scenario B: the universe is [BASE, Y] and Y's on-chain lookups succeeded
ScenarioB ==
  /\ tokens = <<Token(USDC_MINT), Token("Y")>>
  /\ onchain # <<>>
  /\ onchain[2].outcome = "ok"

\* C15 as stated: with quotes off no quote request is issued, every snapshot
\* row has null impact and spread, and a run that returned has exactly the
\* price rows [BASE at 1.0]; in scenario B there is one snapshot row for Y and
\* no price row for Y.
C15_ScenarioB ==
  QuotesOff =>
    /\ \A r \in requested : r.kind # "quote"
    /\ \A k \in DOMAIN rows : NullMetrics(rows[k])
    /\ \A r \in db.snapshots \ db0.snapshots : NullMetrics(r)
    /\ pc = "returned" =>
         (priceRows = <<BasePriceRow>> /\ RunPrices = {BasePriceRow})
    /\ (pc = "returned" /\ ScenarioB) =>
         Cardinality({r \in db.snapshots : r.ts = ts /\ r.mint = "Y"}) = 1

\* C15 amended: as stated, but the price rows of a run that returned are
\* exactly [BASE at 1.0] when the resolved universe is not empty, and there
\* are none when it is empty.
C15_ScenarioB_UnlessEmpty ==
  QuotesOff =>
    /\ \A r \in requested : r.kind # "quote"
    /\ quotes = <<>> /\ metricsMap = <<>>
    /\ \A k \in DOMAIN rows : NullMetrics(rows[k])
    /\ \A r \in db.snapshots \ db0.snapshots : NullMetrics(r)
    /\ pc = "returned" =>
         IF tokens # <<>>
           THEN priceRows = <<BasePriceRow>> /\ RunPrices = {BasePriceRow}
           ELSE priceRows = <<>> /\ RunPrices = {}
    /\ (pc = "returned" /\ ScenarioB) =>
         /\ Cardinality({k \in DOMAIN rows : rows[k].mint = "Y"}) = 1
         /\ Cardinality({r \in db.snapshots : r.ts = ts /\ r.mint = "Y"}) = 1
         /\ \A r \in RunPrices : r.mint # "Y"

\* C15 witness: an offline run with QUOTES_ENABLED set, in scenario B, has
\* returned
C15_Witness ==
  /\ offline /\ quotesEnabled
  /\ ScenarioB /\ pc = "returned"
  /\ \E r \in db.snapshots : r.ts = ts /\ r.mint = "Y" /\ NullMetrics(r)
  /\ RunPrices = {BasePriceRow}

\* --------------------------------------------- properties of loadVerifiedTokens
\* the cache file as call k left it
CacheAfter(k) == IF k < Len(lvCalls) THEN lvCalls[k + 1].before ELSE cacheFile

Rewrote(k) ==
  /\ lvCalls[k].wrote
  /\ CacheAfter(k) =
       [kind |-> "ok", ts |-> lvCalls[k].at,
        items |-> Stringify(lvCalls[k].returned)]

PerTokenOutcomes ==
  /\ \A j, k \in DOMAIN onchain :
       tokens[j].address = tokens[k].address => onchain[j].outcome = onchain[k].outcome
  /\ \A j, k \in DOMAIN quotes :
       toQuote[j].address = toQuote[k].address => quotes[j].outcome = quotes[k].outcome
\* what the quote unit of toQuote[j] produced, from the answers it met
Quoted(j) ==
  LET q == Answers(quotes[j].outcome)
  IN QuoteUnit(toQuote[j], q[1], q[2], q[3])
\* the decimals the on-chain unit of token t stores
StoredDecimals(t) == IF t.decimals.null THEN MintDecimals(t.address) ELSE t.decimals.v
\* the metrics of a mint: those of its quote unit, null if it was not quoted
MetricsOf(mint) ==
  IF \E j \in DOMAIN quotes : toQuote[j].address = mint
    THEN Quoted(CHOOSE j \in DOMAIN quotes : toQuote[j].address = mint).metrics
    ELSE [impact_1k_pct |-> Null, spread_pct |-> Null]
\* the tokens whose lookups answered
Looked == {k \in DOMAIN onchain : onchain[k].outcome = "ok"}
\* what the universe and the outcomes determine, whatever the order
ExpectedSnapshots ==
  {[ts |-> ts, mint |-> tokens[k].address, decimals |-> StoredDecimals(tokens[k]),
    impact_1k_pct |-> MetricsOf(tokens[k].address).impact_1k_pct,
    spread_pct |-> MetricsOf(tokens[k].address).spread_pct] : k \in Looked}
ExpectedPrices ==
  {[ts |-> ts, mint |-> USDC_MINT, price_usd |-> Price(FALSE, OneUsd)]} \cup
  {[ts |-> ts, mint |-> toQuote[j].address, price_usd |-> Quoted(j).prices[1]] :
     j \in {n \in DOMAIN quotes : Quoted(n).prices # <<>>}}
ExpectedEntries ==
  {[mint |-> tokens[k].address, decimals |-> StoredDecimals(tokens[k]),
    verified |-> 1] : k \in Looked}

\* C20: the merge is order-independent: what a run that returns has persisted
\* (directory entries, snapshot rows with their impact and spread, price rows)
\* and its savedTokens are determined by the resolved universe and the
\* per-token on-chain and quote outcomes alone, whatever the order in which
\* the units of either phase completed.
C20_MergeIsOrderIndependent ==
  (pc = "returned" /\ tokens # <<>> /\ PerTokenOutcomes) =>
    /\ {r \in db.snapshots : r.ts = ts} = ExpectedSnapshots
    /\ RunPrices = ExpectedPrices
    /\ db.tokens =
         {e \in db0.tokens : \A n \in ExpectedEntries : e.mint # n.mint}
           \cup ExpectedEntries
    /\ result.savedTokens = Cardinality(Looked)

\* C20 witness: a run over <<X, USDC, Y>> returned after the units of both
\* phases completed in the reverse of the universe's order, X and Y each with
\* metrics and a price
C20_Witness ==
  /\ pc = "returned"
  /\ tokens = <<Token("X"), Token(USDC_MINT), Token("Y")>>
  /\ Len(rows) = 3
  /\ rows[1].mint = "Y" /\ rows[2].mint = USDC_MINT /\ rows[3].mint = "X"
  /\ Len(priceRows) = 3
  /\ priceRows[1].mint = "Y" /\ priceRows[2].mint = "X"
  /\ \A k \in {1, 3} : ~rows[k].impact_1k_pct.null /\ ~rows[k].spread_pct.null

\* ------------------------------------------------ properties of a quote unit
\* the unit has run
UnitRan == unitOut # NoUnitOut
\* the buy-leg quote came back with an output amount of zero
ZeroBuy == ~unitAnswers[2].isNull /\ NumberOf(unitAnswers[2].outAmount) = 0

\* C21: when the buy-leg quote returns a zero output amount then, whatever the
\* sell-leg quote returns, the token's metrics have spread = null and the unit
\* produces no price row (the unit itself never raises).
C21_ZeroBuyGivesNullSpread ==
  (UnitRan /\ ZeroBuy) =>
    /\ unitOut.metrics.spread_pct.null
    /\ unitOut.prices = <<>>

====
